---- MODULE Spec2Model ----
(***************************************************************************)
(* TransMedix backend: the REST handlers over the document store           *)
(* (sessions, transcriptions, summaries), the asynchronous completion      *)
(* handlers of the speech and generative API calls, and the events they    *)
(* emit to the session rooms.                                              *)
(*                                                                         *)
(* A handler that only awaits the database is one action.  The two long    *)
(* running calls (transcribeAudio, summaryService.generateSummary) are     *)
(* split at their await points, so that other requests interleave with     *)
(* them; each keeps the documents it holds in memory in its job record.    *)
(* Document saves follow the ODM: a save of a new document validates the   *)
(* required paths, a save of a loaded document writes only the modified    *)
(* paths (arrays by $push) and throws when the document is gone.           *)
(***************************************************************************)
EXTENDS Integers, Sequences, FiniteSets, TLC

\* ------------------------------------------------------------------ bounds
MaxSessions == 2        \* session documents ever created (one is stored at start)
MaxTranscriptions == 2  \* uploads ever accepted (one is stored at start)
MaxClock == 2           \* how far the wall clock runs, in half minutes
MaxNameLen == 2         \* characters of a doctorName in a request
MaxEdits == 1           \* manual edits on record at one time
MaxSummaries == 2       \* summary documents ever created (one is stored at start)
MaxGenerations == 1     \* summary generations ever accepted
MaxVersions == 2        \* the version a manual edit may still start from
MaxSockets == 2         \* sockets (the browser's and another client's)
MaxChunks == 1          \* live audio chunks ever transcribed
MaxWords == 3           \* words of one recognition result
MaxEnds == 2            \* endSession requests followed through their awaits

\* ------------------------------------------------------------ request data
SessionIds == 1..MaxSessions
TranscriptionIds == 1..MaxTranscriptions
SummaryIds == 1..MaxSummaries
GenerationIds == 1..MaxGenerations
SocketIds == 1..MaxSockets
EndIds == 1..MaxEnds
BrowserSocket == 1      \* socketRef.current of the TranscriptionBox
BrowserSession == 1     \* its sessionId prop
Absent == <<"absent">>
NoSessionId == 0        \* a request body without sessionId
StrayFile == 0          \* an uploaded file that belongs to no transcription
Chars == {" ", "d"}
Names == UNION {[1..n -> Chars] : n \in 0..MaxNameLen}
Texts == {"fever", "cough"}       \* what a clinician types
Transcripts == {"fever"}          \* what the speech API recognises
Notes == {"", "seen"}
Mimes == {"audio/webm", "text/plain"}
Patients == {"", "unknown"}
Formats == {"pdf", "word", "json", "xml"}
Reviewers == {"", "dr"}
\* req.body.content of updateSummary: a section and its new text
Edits == {<<"plan", "walk">>, <<"assessment", "">>}

\* doctorName: Joi.string().required().trim().min(2).max(100)
NameMin == 2
NameMax == 100

RECURSIVE TrimLeft(_)
TrimLeft(s) == IF s # <<>> /\ Head(s) = " " THEN TrimLeft(Tail(s)) ELSE s

RECURSIVE TrimRight(_)
TrimRight(s) ==
  IF s # <<>> /\ s[Len(s)] = " " THEN TrimRight(SubSeq(s, 1, Len(s) - 1)) ELSE s

Trim(s) == TrimRight(TrimLeft(s))

NoMinLength(name) ==
  /\ name # Absent
  /\ Len(Trim(name)) >= 1
  /\ Len(Trim(name)) <= NameMax

\* sessionValidationSchema.validate(req.body), as far as doctorName decides it
sessionValidationSchema(name) ==
  /\ name # Absent
  /\ Len(Trim(name)) >= NameMin
  /\ Len(Trim(name)) <= NameMax

AcceptAnyFile(mime) == TRUE

\* multer's fileFilter: audio MIME types only
allowedMimes ==
  {"audio/wav", "audio/mpeg", "audio/mp3", "audio/mp4", "audio/m4a",
   "audio/webm", "audio/ogg"}
fileFilter(mime) == mime \in allowedMimes

\* Math.round((endTime - startTime) / (1000 * 60)), the clock in half minutes
calculatedDuration(startTime, endTime) == (endTime - startTime + 1) \div 2

\* ------------------------------------------------------ speaker segments
\* A recognition result is its first alternative: word-level data (each word
\* with the speakerTag of the diarization, 0 when it has none), or only a
\* transcript, or no alternative at all.  Strings are sequences of characters.
Space == " "
WordTexts == {<<"a">>, <<"b", "p">>}
SpeakerTags == {0, 1}
WordInfos == [word : WordTexts, speakerTag : SpeakerTags]
NoAlternative == [alternatives |-> FALSE, hasWords |-> FALSE, words |-> <<>>, transcript |-> <<>>]
Results ==
  {[alternatives |-> TRUE, hasWords |-> TRUE, words |-> w, transcript |-> <<>>] :
     w \in UNION {[1..n -> WordInfos] : n \in 0..MaxWords}}
    \cup {[alternatives |-> TRUE, hasWords |-> FALSE, words |-> <<>>, transcript |-> <<"a">>]}
    \cup {NoAlternative}
\* response.results of speechClient.recognize: never empty where segments are extracted
\* (a second result, of one word at most, follows the first or does not)
ShortResults == {r \in Results : Len(r.words) <= 1}
Responses == {<<r>> : r \in Results} \cup {<<r, q>> : r \in Results, q \in ShortResults}
NoSpeech == [pc |-> "idle", results |-> <<>>, segments |-> <<>>]

\* currentSegment before the first word of a result
NoSegment == [text |-> <<>>, speaker |-> 0]

\* alternative.words.forEach: st is <<segments, currentSpeaker, currentSegment>>,
\* currentSpeaker -1 standing for null
RECURSIVE GroupWords(_, _)
GroupWords(words, st) ==
  IF words = <<>> THEN st
  ELSE LET word == Head(words)
           segments == st[1]
           currentSpeaker == st[2]
           currentSegment == st[3]
       IN
       IF currentSpeaker # word.speakerTag
       THEN GroupWords(Tail(words),
              <<IF Trim(currentSegment.text) # <<>>
                THEN Append(segments, currentSegment) ELSE segments,
                word.speakerTag,
                [text |-> word.word, speaker |-> word.speakerTag]>>)
       ELSE GroupWords(Tail(words),
              <<segments, currentSpeaker,
                [currentSegment EXCEPT !.text = @ \o <<Space>> \o word.word]>>)

OneSegmentPerWord(result) ==
  IF ~result.alternatives THEN <<>>
  ELSE IF result.hasWords
  THEN [i \in 1..Len(result.words) |->
          [text |-> result.words[i].word, speaker |-> result.words[i].speakerTag]]
  ELSE <<[text |-> result.transcript, speaker |-> 0]>>

\* the body of results.forEach: the segments one result contributes
SegmentsOf(result) ==
  IF ~result.alternatives THEN <<>>
  ELSE IF result.hasWords
  THEN LET st == GroupWords(result.words, <<<<>>, -1, NoSegment>>) IN
       IF Trim(st[3].text) # <<>> THEN Append(st[1], st[3]) ELSE st[1]
  ELSE <<[text |-> result.transcript, speaker |-> 0]>>

\* transcriptionService.extractSpeakerSegments
RECURSIVE extractSpeakerSegments(_)
extractSpeakerSegments(results) ==
  IF results = <<>> THEN <<>>
  ELSE SegmentsOf(Head(results)) \o extractSpeakerSegments(Tail(results))

\* texts.join(' ')
RECURSIVE Join(_)
Join(texts) ==
  IF texts = <<>> THEN <<>>
  ELSE IF Len(texts) = 1 THEN texts[1]
  ELSE texts[1] \o <<Space>> \o Join(Tail(texts))

\* --------------------------------------------------------------- documents
NoTime == -1
NoSession ==
  [exists |-> FALSE, status |-> "none", transcriptions |-> <<>>, summary |-> 0,
   startTime |-> NoTime, endTime |-> NoTime, duration |-> 0, notes |-> ""]
NoTranscription ==
  [exists |-> FALSE, session |-> 0, status |-> "none", transcriptionText |-> "",
   mimeType |-> "", isEdited |-> FALSE, editHistory |-> <<>>]
DeletedSession == [NoSession EXCEPT !.status = "deleted"]
DeletedTranscription == [NoTranscription EXCEPT !.status = "deleted"]
NoContent == [chiefComplaint |-> "", assessment |-> "", plan |-> ""]
NoSummary ==
  [exists |-> FALSE, session |-> 0, status |-> "none", content |-> NoContent,
   version |-> 0, previousVersions |-> <<>>, isApproved |-> FALSE]
DeletedSummary == [NoSummary EXCEPT !.status = "deleted"]
IdleGeneration ==
  [pc |-> "idle", session |-> 0, summary |-> 0, regenerate |-> FALSE,
   doc |-> NoSummary, content |-> NoContent, failed |-> FALSE, fallback |-> FALSE]
IdleUpload == [pc |-> "idle", session |-> 0, text |-> "", failed |-> FALSE]
IdleEnd == [pc |-> "idle", session |-> 0, notes |-> "", doc |-> NoSession]
\* An exchange: the request (operation, the id in its path or body, its other
\* input) and the response (HTTP status, the id and the status in its body).
NoResponse ==
  [op |-> "none", on |-> 0, arg |-> <<>>, code |-> 0, id |-> 0, status |-> ""]

Response(op, on, arg, code, id, status) ==
  [op |-> op, on |-> on, arg |-> arg, code |-> code, id |-> id, status |-> status]

Flag(b) == IF b THEN <<"true">> ELSE <<>>

RemoveAll(seq, x) == <<>>

\* $pull: { transcriptions: id }
Remove(seq, x) == SelectSeq(seq, LAMBDA y : y # x)

VARIABLES
  sessions,        \* Session collection: id -> document
  transcriptions,  \* Transcription collection: id -> document
  files,           \* uploaded audio files on disk, by the transcription they belong to
  upload,          \* per accepted upload: the pending transcribeAudio call and its handlers
  emitted,         \* per transcription: the events sent to its session's room, in order
  summaries,       \* Summary collection: id -> document
  generation,      \* per accepted generation: the pending summaryService call and its handlers
  announced,       \* per generation: the events sent to its session's room, in order
  now,             \* the wall clock
  connected,       \* the sockets connected to the server
  rooms,           \* the room memberships: <<socket, session>>
  received,        \* per socket: the events the server has sent it
  list,            \* the browser's transcription list: the status it shows per entry
  replies,         \* the 202 responses on their way to the browser
  live,            \* the 'live-transcription' events emitted, in order
  speech,          \* the last recognition response and the segments extracted from it
  unlinking,       \* the summaries whose deleteSummary request is between its two writes
  ending,          \* per followed endSession request: its position and the document it loaded
  res              \* the HTTP exchange completed by the step just taken, if it was one

vars ==
  <<sessions, transcriptions, files, upload, emitted, summaries, generation,
    announced, now, connected, rooms, received, list, replies, live, speech, unlinking,
    ending, res>>
summaryVars == <<summaries, generation, announced>>
clientVars == <<connected, rooms, received, list, replies, live>>
callVars == <<speech, unlinking, ending>>

\* The database as the server finds it: one stored consultation (session 1, its
\* completed transcription 1 and its completed summary 1), the other ids not yet used.
StoredSession ==
  [exists |-> TRUE, status |-> "active", transcriptions |-> <<1>>, summary |-> 1,
   startTime |-> 0, endTime |-> NoTime, duration |-> 0, notes |-> ""]
StoredTranscription ==
  [exists |-> TRUE, session |-> 1, status |-> "completed",
   transcriptionText |-> "fever", mimeType |-> "audio/webm", isEdited |-> FALSE,
   editHistory |-> <<>>]

StoredSummary ==
  [exists |-> TRUE, session |-> 1, status |-> "completed",
   content |-> [chiefComplaint |-> "fever", assessment |-> "flu", plan |-> "rest"],
   version |-> 1, previousVersions |-> <<>>, isApproved |-> FALSE]

Init ==
  /\ sessions = [s \in SessionIds |-> IF s = 1 THEN StoredSession ELSE NoSession]
  /\ transcriptions =
       [t \in TranscriptionIds |-> IF t = 1 THEN StoredTranscription ELSE NoTranscription]
  /\ files = {}
  /\ upload = [t \in TranscriptionIds |-> IdleUpload]
  /\ emitted = [t \in TranscriptionIds |-> <<>>]
  /\ summaries = [m \in SummaryIds |-> IF m = 1 THEN StoredSummary ELSE NoSummary]
  /\ generation = [g \in GenerationIds |-> IdleGeneration]
  /\ announced = [g \in GenerationIds |-> <<>>]
  /\ now = 0
  /\ connected = {BrowserSocket}
  /\ rooms = {<<BrowserSocket, BrowserSession>>}
  /\ received = [k \in SocketIds |-> {}]
  /\ list = [t \in TranscriptionIds |-> IF t = 1 THEN "completed" ELSE "none"]
  /\ replies = {}
  /\ live = <<>>
  /\ speech = NoSpeech
  /\ unlinking = {}
  /\ ending = [e \in EndIds |-> IdleEnd]
  /\ res = NoResponse

\* Ids are generated and never handed out twice: a deleted document keeps its id.
Unused(docs, ids) == {i \in ids : docs[i].status = "none"}
NextId(docs, ids) == CHOOSE i \in Unused(docs, ids) : \A j \in Unused(docs, ids) : i <= j

BroadcastToAll(event, id, room) ==
  received' = [k \in SocketIds |->
     IF k \in connected
     THEN received[k] \cup {[event |-> event, room |-> room, id |-> id]}
     ELSE received[k]]

\* io.to(room).emit(event, {transcriptionId | summaryId: id, ...}): the sockets
\* in the room get the event
Deliver(event, id, room) ==
  received' = [k \in SocketIds |->
     IF <<k, room>> \in rooms
     THEN received[k] \cup {[event |-> event, room |-> room, id |-> id]}
     ELSE received[k]]

\* the TranscriptionBox handlers of 'transcription-completed' and
\* 'transcription-failed': the entry with that transcriptionId, if the list
\* has it, takes the status
BrowserOn(t, status, room) ==
  list' = IF <<BrowserSocket, room>> \in rooms /\ list[t] # "none"
          THEN [list EXCEPT ![t] = status]
          ELSE list

Emit(t, event, room) ==
  /\ emitted' = [emitted EXCEPT ![t] = Append(@, [event |-> event, room |-> room])]
  /\ Deliver(event, t, room)
  /\ BrowserOn(t, IF event = "transcription-completed" THEN "completed" ELSE "failed", room)

\* Time passes between two readings of `new Date()`.
Tick ==
  /\ now < MaxClock
  /\ now' = now + 1
  /\ res' = NoResponse
  /\ UNCHANGED <<sessions, transcriptions, files, upload, emitted, summaryVars, clientVars,
                 callVars>>

\* transcribeAudio: speechClient.recognize answers (the response of one call is
\* followed)
Recognize(results) ==
  /\ speech.pc = "idle"
  /\ speech' = [pc |-> "recognized", results |-> results, segments |-> <<>>]
  /\ res' = NoResponse
  /\ UNCHANGED <<sessions, transcriptions, files, upload, emitted, summaryVars, now, clientVars,
                 unlinking, ending>>

\* transcribeAudio: const segments = this.extractSpeakerSegments(response.results)
ExtractSpeakerSegments ==
  /\ speech.pc = "recognized"
  /\ speech' = [speech EXCEPT !.pc = "extracted",
                              !.segments = extractSpeakerSegments(speech.results)]
  /\ res' = NoResponse
  /\ UNCHANGED <<sessions, transcriptions, files, upload, emitted, summaryVars, now, clientVars,
                 unlinking, ending>>

\* ---------------------------------------------------------------- sessions
CreateSession(doctorName, patientId) ==
  IF ~sessionValidationSchema(doctorName)
  THEN /\ res' = Response("createSession", 0, doctorName, 400, 0, "")
       /\ UNCHANGED <<sessions, transcriptions, files, upload, emitted, now, callVars, summaryVars, clientVars>>
  ELSE IF patientId # ""
  THEN /\ res' = Response("createSession", 0, doctorName, 404, 0, "")
       /\ UNCHANGED <<sessions, transcriptions, files, upload, emitted, now, callVars, summaryVars, clientVars>>
  ELSE /\ Unused(sessions, SessionIds) # {}
       /\ LET s == NextId(sessions, SessionIds) IN
          /\ sessions' = [sessions EXCEPT ![s] =
               [exists |-> TRUE, status |-> "active", transcriptions |-> <<>>,
                summary |-> 0, startTime |-> now, endTime |-> NoTime,
                duration |-> 0, notes |-> ""]]
          /\ res' = Response("createSession", 0, doctorName, 201, s, "active")
       /\ UNCHANGED <<transcriptions, files, upload, emitted, summaryVars, now, callVars, clientVars>>

\* sessionSchema.methods.endSession; the pre-save hook recomputes the same duration
endSession(doc, t) ==
  [doc EXCEPT !.endTime = t, !.status = "completed",
              !.duration = calculatedDuration(doc.startTime, t)]

EndWithoutStatusCheck(s, notes) ==
  IF ~sessions[s].exists
  THEN /\ res' = Response("endSession", s, <<notes>>, 404, 0, "")
       /\ UNCHANGED <<sessions, transcriptions, files, upload, emitted, now, callVars, summaryVars, clientVars>>
  ELSE /\ sessions' = [sessions EXCEPT ![s] =
            [endSession(sessions[s], now) EXCEPT
               !.notes = IF notes # "" THEN notes ELSE sessions[s].notes]]
       /\ res' = Response("endSession", s, <<notes>>, 200, s, "completed")
       /\ UNCHANGED <<transcriptions, files, upload, emitted, summaryVars, now, callVars, clientVars>>

EndSession(s, notes) ==
  IF ~sessions[s].exists
  THEN /\ res' = Response("endSession", s, <<notes>>, 404, 0, "")
       /\ UNCHANGED <<sessions, transcriptions, files, upload, emitted, now, callVars, summaryVars, clientVars>>
  ELSE IF sessions[s].status = "completed"
  THEN /\ res' = Response("endSession", s, <<notes>>, 400, 0, "")
       /\ UNCHANGED <<sessions, transcriptions, files, upload, emitted, now, callVars, summaryVars, clientVars>>
  ELSE /\ sessions' = [sessions EXCEPT ![s] =
            [endSession(sessions[s], now) EXCEPT
               !.notes = IF notes # "" THEN notes ELSE sessions[s].notes]]
       /\ res' = Response("endSession", s, <<notes>>, 200, s, "completed")
       /\ UNCHANGED <<transcriptions, files, upload, emitted, summaryVars, now, callVars, clientVars>>

\* endSession up to `await Session.findById(sessionId)` and the two checks
EndSessionFind(e, s, notes) ==
  /\ ending[e].pc = "idle"
  /\ IF ~sessions[s].exists
     THEN /\ res' = Response("endSession", s, <<notes>>, 404, 0, "")
          /\ ending' = [ending EXCEPT ![e].pc = "done"]
     ELSE IF sessions[s].status = "completed"
     THEN /\ res' = Response("endSession", s, <<notes>>, 400, 0, "")
          /\ ending' = [ending EXCEPT ![e].pc = "done"]
     ELSE /\ res' = NoResponse
          /\ ending' = [ending EXCEPT ![e] =
               [pc |-> "found", session |-> s, notes |-> notes, doc |-> sessions[s]]]
  /\ UNCHANGED <<sessions, transcriptions, files, upload, emitted, summaryVars, now, clientVars,
                 speech, unlinking>>

\* endSession from `await session.endSession()` on: the loaded document takes
\* the end time, the status and the duration and is saved, then the notes
EndSessionSave(e) ==
  /\ ending[e].pc = "found"
  /\ LET s == ending[e].session
         notes == ending[e].notes
         doc == endSession(ending[e].doc, now) IN
     IF ~sessions[s].exists
     THEN /\ res' = Response("endSession", s, <<notes>>, 500, 0, "")
          /\ UNCHANGED sessions
     ELSE /\ sessions' = [sessions EXCEPT ![s] =
               [@ EXCEPT !.endTime = doc.endTime, !.status = doc.status,
                         !.duration = doc.duration,
                         !.notes = IF notes # "" THEN notes ELSE @]]
          /\ res' = Response("endSession", s, <<notes>>, 200, s, "completed")
  /\ ending' = [ending EXCEPT ![e].pc = "done"]
  /\ UNCHANGED <<transcriptions, files, upload, emitted, summaryVars, now, clientVars,
                 speech, unlinking>>

\* req.body of updateSession, as far as status and endTime go ("" and NoTime:
\* the field is not in the body)
SessionUpdates == [status : {"", "active", "completed", "done"}, endTime : {NoTime, 0}]
statusEnum == {"active", "completed", "cancelled", "paused"}

\* Session.findByIdAndUpdate(sessionId, updates, { new: true, runValidators: true })
UpdateSession(s, updates) ==
  IF updates.status # "" /\ updates.status \notin statusEnum
  THEN /\ res' = Response("updateSession", s, <<updates.status>>, 500, 0, "")
       /\ UNCHANGED <<sessions, transcriptions, files, upload, emitted, now, callVars, summaryVars, clientVars>>
  ELSE IF ~sessions[s].exists
  THEN /\ res' = Response("updateSession", s, <<updates.status>>, 404, 0, "")
       /\ UNCHANGED <<sessions, transcriptions, files, upload, emitted, now, callVars, summaryVars, clientVars>>
  ELSE /\ sessions' = [sessions EXCEPT ![s] =
            [@ EXCEPT !.status = IF updates.status # "" THEN updates.status ELSE @,
                      !.endTime = IF updates.endTime # NoTime THEN updates.endTime ELSE @]]
       /\ res' = Response("updateSession", s, <<updates.status>>, 200, s, sessions'[s].status)
       /\ UNCHANGED <<transcriptions, files, upload, emitted, now, callVars, summaryVars, clientVars>>

DeleteSession(s) ==
  IF ~sessions[s].exists
  THEN /\ res' = Response("deleteSession", s, <<>>, 404, 0, "")
       /\ UNCHANGED <<sessions, transcriptions, files, upload, emitted, now, callVars, summaryVars, clientVars>>
  ELSE /\ sessions' = [sessions EXCEPT ![s] = DeletedSession]
       /\ res' = Response("deleteSession", s, <<>>, 200, 0, "")
       /\ UNCHANGED <<transcriptions, files, upload, emitted, now, callVars, summaryVars, clientVars>>

\* ----------------------------------------------------------- transcriptions
UploadAwaitingTranscription(s, mime) ==
  IF ~fileFilter(mime)
  THEN /\ res' = Response("uploadAudio", s, <<mime>>, 400, 0, "Invalid file type")
       /\ UNCHANGED <<sessions, transcriptions, files, upload, emitted, now, callVars, summaryVars, clientVars>>
  ELSE IF ~sessions[s].exists
  THEN /\ res' = Response("uploadAudio", s, <<mime>>, 404, 0, "")
       /\ UNCHANGED <<sessions, transcriptions, files, upload, emitted, now, callVars, summaryVars, clientVars>>
  ELSE /\ Unused(transcriptions, TranscriptionIds) # {}
       /\ LET t == NextId(transcriptions, TranscriptionIds) IN
          /\ transcriptions' = [transcriptions EXCEPT ![t] =
               [exists |-> TRUE, session |-> s, status |-> "processing",
                transcriptionText |-> "", mimeType |-> mime, isEdited |-> FALSE,
                editHistory |-> <<>>]]
          /\ files' = files
          /\ upload' = [upload EXCEPT ![t] =
               [pc |-> "resolved", session |-> s, text |-> "fever", failed |-> FALSE]]
          /\ res' = Response("uploadAudio", s, <<mime>>, 202, t, "processing")
          /\ replies' = IF s = BrowserSession THEN replies \cup {t} ELSE replies
       /\ UNCHANGED <<sessions, emitted, now, callVars, summaryVars, connected, rooms, received, list, live>>

\* POST /transcribe/upload: multer (fileFilter, router error handler), then uploadAudio
UploadAudio(s, mime) ==
  IF ~fileFilter(mime)
  THEN /\ res' = Response("uploadAudio", s, <<mime>>, 400, 0, "Invalid file type")
       /\ UNCHANGED <<sessions, transcriptions, files, upload, emitted, now, callVars, summaryVars, clientVars>>
  ELSE IF s = NoSessionId
  THEN /\ files' = files \cup {StrayFile}
       /\ res' = Response("uploadAudio", s, <<mime>>, 400, 0, "Session ID required")
       /\ UNCHANGED <<sessions, transcriptions, upload, emitted, now, callVars, summaryVars, clientVars>>
  ELSE IF ~sessions[s].exists
  THEN /\ res' = Response("uploadAudio", s, <<mime>>, 404, 0, "")
       /\ UNCHANGED <<sessions, transcriptions, files, upload, emitted, now, callVars, summaryVars, clientVars>>
  ELSE /\ Unused(transcriptions, TranscriptionIds) # {}
       /\ LET t == NextId(transcriptions, TranscriptionIds) IN
          /\ transcriptions' = [transcriptions EXCEPT ![t] =
               [exists |-> TRUE, session |-> s, status |-> "processing",
                transcriptionText |-> "", mimeType |-> mime, isEdited |-> FALSE,
                editHistory |-> <<>>]]
          /\ files' = files \cup {t}
          /\ upload' = [upload EXCEPT ![t] =
               [pc |-> "calling", session |-> s, text |-> "", failed |-> FALSE]]
          /\ res' = Response("uploadAudio", s, <<mime>>, 202, t, "processing")
          /\ replies' = IF s = BrowserSession THEN replies \cup {t} ELSE replies
       /\ UNCHANGED <<sessions, emitted, now, callVars, summaryVars, connected, rooms, received, list, live>>

\* transcriptionService.transcribeAudio settles: the text, or an Error; its
\* finally block has removed the audio file either way
TranscribeAudio(t, ok, text) ==
  /\ upload[t].pc = "calling"
  /\ upload' = [upload EXCEPT ![t] =
       IF ok THEN [@ EXCEPT !.pc = "resolved", !.text = text]
             ELSE [@ EXCEPT !.pc = "rejected", !.failed = TRUE]]
  /\ files' = files \ {t}
  /\ res' = NoResponse
  /\ UNCHANGED <<sessions, transcriptions, emitted, now, callVars, summaryVars, clientVars>>

\* .then, up to `await transcription.save()`
UploadThenSave(t) ==
  /\ upload[t].pc = "resolved"
  /\ IF transcriptions[t].exists
     THEN /\ transcriptions' = [transcriptions EXCEPT ![t] =
               [@ EXCEPT !.transcriptionText = upload[t].text, !.status = "completed"]]
          /\ upload' = [upload EXCEPT ![t].pc = "saved"]
     ELSE /\ upload' = [upload EXCEPT ![t].pc = "rejected"]
          /\ UNCHANGED transcriptions
  /\ res' = NoResponse
  /\ UNCHANGED <<sessions, files, emitted, now, callVars, summaryVars, clientVars>>

\* .then, from `session.transcriptions.push` to the emit
UploadThenPush(t) ==
  /\ upload[t].pc = "saved"
  /\ LET s == upload[t].session IN
     IF sessions[s].exists
     THEN /\ sessions' = [sessions EXCEPT ![s].transcriptions = Append(@, t)]
          /\ Emit(t, "transcription-completed", s)
          /\ upload' = [upload EXCEPT ![t].pc = "done"]
     ELSE /\ upload' = [upload EXCEPT ![t].pc = "rejected"]
          /\ UNCHANGED <<sessions, emitted, received, list>>
  /\ res' = NoResponse
  /\ UNCHANGED <<transcriptions, files, now, callVars, summaryVars, connected, rooms, replies, live>>

\* .catch: mark failed, save, emit; a save that throws here is not handled
UploadCatch(t) ==
  /\ upload[t].pc = "rejected"
  /\ IF transcriptions[t].exists
     THEN /\ transcriptions' = [transcriptions EXCEPT ![t].status = "failed"]
          /\ Emit(t, "transcription-failed", upload[t].session)
          /\ upload' = [upload EXCEPT ![t].pc = "done"]
     ELSE /\ upload' = [upload EXCEPT ![t].pc = "unhandled"]
          /\ UNCHANGED <<transcriptions, emitted, received, list>>
  /\ res' = NoResponse
  /\ UNCHANGED <<sessions, files, now, callVars, summaryVars, connected, rooms, replies, live>>

RECURSIVE EditsOnRecord(_)
EditsOnRecord(ids) ==
  IF ids = {} THEN 0
  ELSE LET t == CHOOSE x \in ids : TRUE IN
       Len(transcriptions[t].editHistory) + EditsOnRecord(ids \ {t})

UpdateWithoutHistory(t, text) ==
  IF ~transcriptions[t].exists
  THEN /\ res' = Response("updateTranscription", t, <<text>>, 404, 0, "")
       /\ UNCHANGED <<sessions, transcriptions, files, upload, emitted, now, callVars, summaryVars, clientVars>>
  ELSE /\ IF text # "" /\ text # transcriptions[t].transcriptionText
          THEN /\ EditsOnRecord(TranscriptionIds) < MaxEdits
               /\ transcriptions' = [transcriptions EXCEPT ![t] =
                    [@ EXCEPT !.transcriptionText = text, !.isEdited = TRUE]]
          ELSE UNCHANGED transcriptions
       /\ res' = Response("updateTranscription", t, <<text>>, 200, t, "")
       /\ UNCHANGED <<sessions, files, upload, emitted, now, callVars, summaryVars, clientVars>>

\* transcriptionController.updateTranscription, as far as the text decides it
UpdateTranscription(t, text) ==
  IF ~transcriptions[t].exists
  THEN /\ res' = Response("updateTranscription", t, <<text>>, 404, 0, "")
       /\ UNCHANGED <<sessions, transcriptions, files, upload, emitted, now, callVars, summaryVars, clientVars>>
  ELSE /\ IF text # "" /\ text # transcriptions[t].transcriptionText
          THEN /\ EditsOnRecord(TranscriptionIds) < MaxEdits
               /\ transcriptions' = [transcriptions EXCEPT ![t] =
                    [@ EXCEPT !.editHistory = Append(@,
                                 [originalText |-> transcriptions[t].transcriptionText,
                                  editedText |-> text]),
                              !.transcriptionText = text,
                              !.isEdited = TRUE]]
          ELSE UNCHANGED transcriptions
       /\ res' = Response("updateTranscription", t, <<text>>, 200, t, "")
       /\ UNCHANGED <<sessions, files, upload, emitted, now, callVars, summaryVars, clientVars>>

DeleteTranscription(t) ==
  IF ~transcriptions[t].exists
  THEN /\ res' = Response("deleteTranscription", t, <<>>, 404, 0, "")
       /\ UNCHANGED <<sessions, transcriptions, files, upload, emitted, now, callVars, summaryVars, clientVars>>
  ELSE /\ LET s == transcriptions[t].session IN
          sessions' = IF sessions[s].exists
                      THEN [sessions EXCEPT ![s].transcriptions = Remove(@, t)]
                      ELSE sessions
       /\ files' = files \ {t}
       /\ transcriptions' = [transcriptions EXCEPT ![t] = DeletedTranscription]
       /\ res' = Response("deleteTranscription", t, <<>>, 200, 0, "")
       /\ UNCHANGED <<upload, emitted, now, callVars, summaryVars, clientVars>>

\* ---------------------------------------------------------------- summaries
\* What the generative model's reply parses to (generateStructuredSummary):
\* a reply with every section, and one that leaves the assessment out.
Replies ==
  {[chiefComplaint |-> "cough", assessment |-> "cold", plan |-> "fluids"],
   [chiefComplaint |-> "cough", assessment |-> "", plan |-> "fluids"]}

SkipValidation(content) == TRUE

\* summarySchema.content: chiefComplaint, assessment and plan are required strings
contentValidates(content) ==
  /\ content.chiefComplaint # ""
  /\ content.assessment # ""
  /\ content.plan # ""

TranscriptionsOfSession(s) ==
  SelectSeq([t \in TranscriptionIds |-> t],
            LAMBDA t : transcriptions[t].exists /\ transcriptions[t].session = s)

\* .populate('transcriptions') / .populate('summary'): references to documents
\* that are gone populate to nothing
populatedTranscriptions(s) ==
  SelectSeq(sessions[s].transcriptions, LAMBDA t : transcriptions[t].exists)
populatedSummary(s) ==
  IF sessions[s].summary # 0 /\ summaries[sessions[s].summary].exists
  THEN sessions[s].summary ELSE 0

UnusedGenerations == {g \in GenerationIds : generation[g].pc = "idle"}
NextGeneration == CHOOSE g \in UnusedGenerations : \A h \in UnusedGenerations : g <= h

Announce(g, event, room) ==
  /\ announced' = [announced EXCEPT ![g] = Append(@, [event |-> event, room |-> room])]
  /\ Deliver(event, generation[g].summary, room)

StartGeneration(s, m, regenerate, doc) ==
  generation' = [generation EXCEPT ![NextGeneration] =
    [pc |-> "loading", session |-> s, summary |-> m, regenerate |-> regenerate,
     doc |-> doc, content |-> NoContent, failed |-> FALSE, fallback |-> FALSE]]

\* summaryController.generateSummary, up to the 202 (or the error response)
GenerateSummary(s, regenerate) ==
  IF ~sessions[s].exists
  THEN /\ res' = Response("generateSummary", s, Flag(regenerate), 404, 0, "")
       /\ UNCHANGED <<sessions, transcriptions, files, upload, emitted, summaryVars, now, callVars, clientVars>>
  ELSE IF populatedTranscriptions(s) = <<>>
  THEN /\ res' = Response("generateSummary", s, Flag(regenerate), 400, 0, "No transcriptions found")
       /\ UNCHANGED <<sessions, transcriptions, files, upload, emitted, summaryVars, now, callVars, clientVars>>
  ELSE IF populatedSummary(s) # 0 /\ ~regenerate
  THEN /\ res' = Response("generateSummary", s, Flag(regenerate), 400, populatedSummary(s), "Summary already exists")
       /\ UNCHANGED <<sessions, transcriptions, files, upload, emitted, summaryVars, now, callVars, clientVars>>
  ELSE IF populatedSummary(s) # 0
  THEN \* regenerate: the existing document goes back to 'generating'
       LET m == populatedSummary(s)
           doc == [summaries[m] EXCEPT !.status = "generating"] IN
       /\ UnusedGenerations # {}
       /\ summaries' = [summaries EXCEPT ![m] = doc]
       /\ StartGeneration(s, m, regenerate, doc)
       /\ res' = Response("generateSummary", s, Flag(regenerate), 202, m, "generating")
       /\ UNCHANGED <<sessions, transcriptions, files, upload, emitted, announced, now, callVars, clientVars>>
  ELSE \* new Summary({session, status: 'generating'}).save(): the save validates
       LET doc == [NoSummary EXCEPT !.exists = TRUE, !.session = s,
                                    !.status = "generating", !.version = 1] IN
       IF ~contentValidates(doc.content)
       THEN /\ res' = Response("generateSummary", s, Flag(regenerate), 500, 0, "")
            /\ UNCHANGED <<sessions, transcriptions, files, upload, emitted, summaryVars, now, callVars, clientVars>>
       ELSE /\ UnusedGenerations # {}
            /\ Unused(summaries, SummaryIds) # {}
            /\ LET m == NextId(summaries, SummaryIds) IN
               /\ summaries' = [summaries EXCEPT ![m] = doc]
               /\ sessions' = [sessions EXCEPT ![s].summary = m]
               /\ StartGeneration(s, m, regenerate, doc)
               /\ res' = Response("generateSummary", s, Flag(regenerate), 202, m, "generating")
            /\ UNCHANGED <<transcriptions, files, upload, emitted, announced, now, callVars, clientVars>>

\* summaryService.generateSummary, up to the first generative call: it reads
\* the session again and throws when there is nothing to summarise
LoadTranscripts(g) ==
  /\ generation[g].pc = "loading"
  /\ LET s == generation[g].session
         nothing ==
           \/ ~sessions[s].exists
           \/ populatedTranscriptions(s) = <<>>
           \/ \A i \in 1..Len(populatedTranscriptions(s)) :
                LET t == populatedTranscriptions(s)[i] IN
                transcriptions[t].status # "completed"
                  \/ transcriptions[t].transcriptionText = "" IN
     generation' = [generation EXCEPT ![g].pc =
                      IF nothing THEN "rejected" ELSE "structured"]
  /\ res' = NoResponse
  /\ UNCHANGED <<sessions, transcriptions, files, upload, emitted, summaries, announced, now, callVars, clientVars>>

SwallowStructuredFailure(g, ok, reply) ==
  /\ generation[g].pc = "structured"
  /\ generation' = [generation EXCEPT ![g] =
       IF ok THEN [@ EXCEPT !.pc = "keyPoints", !.content = reply]
             ELSE [@ EXCEPT !.pc = "keyPoints", !.failed = TRUE]]
  /\ res' = NoResponse
  /\ UNCHANGED <<sessions, transcriptions, files, upload, emitted, summaries, announced, now, callVars, clientVars>>

\* generateStructuredSummary: a failed call (or a reply that does not parse) is rethrown
GenerateStructuredSummary(g, ok, reply) ==
  /\ generation[g].pc = "structured"
  /\ generation' = [generation EXCEPT ![g] =
       IF ok THEN [@ EXCEPT !.pc = "keyPoints", !.content = reply]
             ELSE [@ EXCEPT !.pc = "rejected", !.failed = TRUE]]
  /\ res' = NoResponse
  /\ UNCHANGED <<sessions, transcriptions, files, upload, emitted, summaries, announced, now, callVars, clientVars>>

\* extractKeyPoints: a failed call returns the fallback key point
ExtractKeyPoints(g, ok) ==
  /\ generation[g].pc = "keyPoints"
  /\ generation' = [generation EXCEPT ![g] =
       [@ EXCEPT !.pc = "medicalData", !.fallback = @ \/ ~ok]]
  /\ res' = NoResponse
  /\ UNCHANGED <<sessions, transcriptions, files, upload, emitted, summaries, announced, now, callVars, clientVars>>

\* extractMedicalData: a failed call returns the empty extraction
ExtractMedicalData(g, ok) ==
  /\ generation[g].pc = "medicalData"
  /\ generation' = [generation EXCEPT ![g] =
       [@ EXCEPT !.pc = "resolved", !.fallback = @ \/ ~ok]]
  /\ res' = NoResponse
  /\ UNCHANGED <<sessions, transcriptions, files, upload, emitted, summaries, announced, now, callVars, clientVars>>

\* summarySchema.methods.createNewVersion, on the document held in memory
createNewVersion(doc, newContent) ==
  [doc EXCEPT !.previousVersions =
                 Append(@, [version |-> doc.version, content |-> doc.content]),
              !.version = doc.version + 1,
              !.content = newContent,
              !.status = "completed",
              !.isApproved = FALSE]

\* document.save() of a loaded document: the modified paths are validated and
\* written ($push for the appended array elements); no document, no save
saveSummary(m, old, doc) ==
  [summaries[m] EXCEPT
     !.status = doc.status,
     !.content = IF doc.content # old.content THEN doc.content ELSE @,
     !.version = IF doc.version # old.version THEN doc.version ELSE @,
     !.isApproved = IF doc.isApproved # old.isApproved THEN doc.isApproved ELSE @,
     !.previousVersions =
        @ \o SubSeq(doc.previousVersions, Len(old.previousVersions) + 1,
                    Len(doc.previousVersions))]

\* .then: new version (regenerate) or first content, save, emit
GenerateThen(g) ==
  /\ generation[g].pc = "resolved"
  /\ LET j == generation[g]
         m == j.summary
         \* `regenerate && session.summary`: the session held in memory has a summary
         doc == IF j.regenerate
                THEN createNewVersion(j.doc, j.content)
                ELSE [j.doc EXCEPT !.content = j.content, !.status = "completed"] IN
     IF summaries[m].exists /\ contentValidates(doc.content)
     THEN /\ summaries' = [summaries EXCEPT ![m] = saveSummary(m, j.doc, doc)]
          /\ Announce(g, "summary-completed", j.session)
          /\ generation' = [generation EXCEPT ![g] = [@ EXCEPT !.pc = "done", !.doc = doc]]
     ELSE /\ generation' = [generation EXCEPT ![g] = [@ EXCEPT !.pc = "rejected", !.doc = doc]]
          /\ UNCHANGED <<summaries, announced, received>>
  /\ res' = NoResponse
  /\ UNCHANGED <<sessions, transcriptions, files, upload, emitted, now, callVars, connected, rooms, list, replies, live>>

\* .catch: mark failed, save, emit; a save that throws here is not handled
GenerateCatch(g) ==
  /\ generation[g].pc = "rejected"
  /\ LET j == generation[g]
         m == j.summary
         doc == [j.doc EXCEPT !.status = "failed"] IN
     IF summaries[m].exists /\ contentValidates(doc.content)
     THEN /\ summaries' = [summaries EXCEPT ![m] = saveSummary(m, j.doc, doc)]
          /\ Announce(g, "summary-failed", j.session)
          /\ generation' = [generation EXCEPT ![g].pc = "done"]
     ELSE /\ generation' = [generation EXCEPT ![g].pc = "unhandled"]
          /\ UNCHANGED <<summaries, announced, received>>
  /\ res' = NoResponse
  /\ UNCHANGED <<sessions, transcriptions, files, upload, emitted, now, callVars, connected, rooms, list, replies, live>>

DeleteSummary(m) ==
  IF ~summaries[m].exists
  THEN /\ res' = Response("deleteSummary", m, <<>>, 404, 0, "")
       /\ UNCHANGED <<sessions, transcriptions, files, upload, emitted, summaryVars, now, callVars, clientVars>>
  ELSE /\ LET s == summaries[m].session IN
          sessions' = IF sessions[s].exists
                      THEN [sessions EXCEPT ![s].summary = 0]
                      ELSE sessions
       /\ summaries' = [summaries EXCEPT ![m] = DeletedSummary]
       /\ res' = Response("deleteSummary", m, <<>>, 200, 0, "")
       /\ UNCHANGED <<transcriptions, files, upload, emitted, generation, announced, now, callVars, clientVars>>

\* deleteSummary up to `await Session.findByIdAndUpdate(..., { $unset: { summary: 1 } })`
DeleteSummaryUnset(m) ==
  /\ m \notin unlinking
  /\ IF ~summaries[m].exists
     THEN /\ res' = Response("deleteSummary", m, <<>>, 404, 0, "")
          /\ UNCHANGED <<sessions, unlinking>>
     ELSE /\ LET s == summaries[m].session IN
             sessions' = IF sessions[s].exists
                         THEN [sessions EXCEPT ![s].summary = 0]
                         ELSE sessions
          /\ unlinking' = unlinking \cup {m}
          /\ res' = NoResponse
  /\ UNCHANGED <<transcriptions, files, upload, emitted, summaryVars, now, clientVars,
                 speech, ending>>

\* deleteSummary from `await Summary.findOneAndDelete({ summaryId })` on
DeleteSummaryRemove(m) ==
  /\ m \in unlinking
  /\ unlinking' = unlinking \ {m}
  /\ summaries' = IF summaries[m].exists
                  THEN [summaries EXCEPT ![m] = DeletedSummary]
                  ELSE summaries
  /\ res' = Response("deleteSummary", m, <<>>, 200, 0, "")
  /\ UNCHANGED <<sessions, transcriptions, files, upload, emitted, generation, announced, now,
                 clientVars, speech, ending>>

\* { ...summary.content, ...content }
Merge(content, edit) == [content EXCEPT ![edit[1]] = edit[2]]

\* summaryController.updateSummary: a content edit keeps the old version in the
\* history and resets the approval; the save validates the merged content
UpdateSummary(m, edit) ==
  IF ~summaries[m].exists
  THEN /\ res' = Response("updateSummary", m, edit, 404, 0, "")
       /\ UNCHANGED <<sessions, transcriptions, files, upload, emitted, summaryVars, now, callVars, clientVars>>
  ELSE IF edit = Absent
  THEN /\ res' = Response("updateSummary", m, edit, 200, m, "")
       /\ UNCHANGED <<sessions, transcriptions, files, upload, emitted, summaryVars, now, callVars, clientVars>>
  ELSE LET old == summaries[m]
           doc == [old EXCEPT
                     !.previousVersions =
                        Append(@, [version |-> old.version, content |-> old.content]),
                     !.content = Merge(old.content, edit),
                     !.version = old.version + 1,
                     !.isApproved = FALSE] IN
       IF ~contentValidates(doc.content)
       THEN /\ res' = Response("updateSummary", m, edit, 500, 0, "")
            /\ UNCHANGED <<sessions, transcriptions, files, upload, emitted, summaryVars, now, callVars, clientVars>>
       ELSE /\ old.version <= MaxVersions
            /\ summaries' = [summaries EXCEPT ![m] = doc]
            /\ res' = Response("updateSummary", m, edit, 200, m, "")
            /\ UNCHANGED <<sessions, transcriptions, files, upload, emitted, generation,
                           announced, now, callVars, clientVars>>

\* summaryController.approveSummary and summarySchema.methods.approve
ApproveSummary(m, reviewedBy) ==
  IF reviewedBy = ""
  THEN /\ res' = Response("approveSummary", m, <<reviewedBy>>, 400, 0, "")
       /\ UNCHANGED <<sessions, transcriptions, files, upload, emitted, summaryVars, now, callVars, clientVars>>
  ELSE IF ~summaries[m].exists
  THEN /\ res' = Response("approveSummary", m, <<reviewedBy>>, 404, 0, "")
       /\ UNCHANGED <<sessions, transcriptions, files, upload, emitted, summaryVars, now, callVars, clientVars>>
  ELSE /\ summaries' = [summaries EXCEPT ![m].isApproved = TRUE]
       /\ res' = Response("approveSummary", m, <<reviewedBy>>, 200, m, "")
       /\ UNCHANGED <<sessions, transcriptions, files, upload, emitted, generation,
                      announced, now, callVars, clientVars>>

\* summaryController.exportSummary: only the json format is implemented
ExportSummary(m, format) ==
  /\ res' =
       IF format \notin {"pdf", "word", "json"}
       THEN Response("exportSummary", m, <<format>>, 400, 0, "")
       ELSE IF ~summaries[m].exists
       THEN Response("exportSummary", m, <<format>>, 404, 0, "")
       ELSE IF format = "json"
       THEN Response("exportSummary", m, <<format>>, 200, m, summaries[m].status)
       ELSE Response("exportSummary", m, <<format>>, 501, 0, "")
  /\ UNCHANGED <<sessions, transcriptions, files, upload, emitted, summaryVars, now, callVars, clientVars>>

\* ------------------------------------------------------------------ sockets
serverVars ==
  <<sessions, transcriptions, files, upload, emitted, summaries, generation,
    announced, now, callVars>>

\* io.on('connection')
Connect(k) ==
  /\ k \notin connected
  /\ connected' = connected \cup {k}
  /\ res' = NoResponse
  /\ UNCHANGED <<serverVars, rooms, received, list, replies, live>>

\* socket.on('join-session') of both connection handlers: socket.join (twice),
\* and the first handler confirms with 'joined-session' to that socket
JoinSession(k, room) ==
  /\ k \in connected
  /\ rooms' = rooms \cup {<<k, room>>}
  /\ received' = [received EXCEPT ![k] =
       @ \cup {[event |-> "joined-session", room |-> room, id |-> 0]}]
  /\ res' = NoResponse
  /\ UNCHANGED <<serverVars, connected, list, replies, live>>

\* socket.on('leave-session') of both connection handlers: socket.leave
LeaveSession(k, room) ==
  /\ k \in connected
  /\ rooms' = rooms \ {<<k, room>>}
  /\ res' = NoResponse
  /\ UNCHANGED <<serverVars, connected, received, list, replies, live>>

DisconnectKeepingRooms(k) ==
  /\ k \in connected
  /\ connected' = connected \ {k}
  /\ rooms' = rooms
  /\ res' = NoResponse
  /\ UNCHANGED <<serverVars, received, list, replies, live>>

\* the socket closes (the TranscriptionBox effect's cleanup, or the network):
\* the server takes it out of every room
Disconnect(k) ==
  /\ k \in connected
  /\ connected' = connected \ {k}
  /\ rooms' = {m \in rooms : m[1] # k}
  /\ res' = NoResponse
  /\ UNCHANGED <<serverVars, received, list, replies, live>>

\* socket.on('transcription-update') of the second connection handler:
\* socket.to(data.sessionId).emit relays the data to the room named in it, the
\* sender excepted; the data is the sender's, here its socket id
TranscriptionUpdate(k, room) ==
  /\ k \in connected
  /\ received' = [j \in SocketIds |->
       IF j # k /\ <<j, room>> \in rooms
       THEN received[j] \cup {[event |-> "transcription-update", room |-> room, id |-> k]}
       ELSE received[j]]
  /\ res' = NoResponse
  /\ UNCHANGED <<serverVars, connected, rooms, list, replies, live>>

\* POST /transcribe/stream: the second startStreamTranscription of the object
\* literal is the one in effect.  The step is the handler from the return of
\* transcribeAudio on; what comes before it writes nothing but the chunk file
\* that transcribeAudio removes.
StartStreamTranscription(s, hasFile, ok, text) ==
  IF ~hasFile
  THEN /\ res' = Response("streamTranscription", s, <<>>, 400, 0, "")
       /\ UNCHANGED <<serverVars, clientVars>>
  ELSE IF s = NoSessionId
  THEN /\ files' = files \cup {StrayFile}
       /\ res' = Response("streamTranscription", s, <<"audio">>, 400, 0, "")
       /\ UNCHANGED <<sessions, transcriptions, upload, emitted, summaryVars, now, callVars,
                      clientVars>>
  ELSE /\ Len(live) < MaxChunks
       /\ IF ~ok
          THEN /\ res' = Response("streamTranscription", s, <<"audio">>, 500, 0, "")
               /\ UNCHANGED <<serverVars, clientVars>>
          ELSE /\ live' = Append(live, [room |-> s, text |-> text])
               /\ Deliver("live-transcription", 0, s)
               /\ res' = Response("streamTranscription", s, <<"audio">>, 200, 0, text)
               /\ UNCHANGED <<serverVars, connected, rooms, list, replies>>

\* TranscriptionBox.uploadAudio, after `await fetch`: the 202 has arrived and
\* the placeholder entry goes into the list
BrowserReceive202(t) ==
  /\ t \in replies
  /\ replies' = replies \ {t}
  /\ list' = [list EXCEPT ![t] = "processing"]
  /\ res' = NoResponse
  /\ UNCHANGED <<serverVars, connected, rooms, received, live>>

SessionNext ==
  \/ \E n \in Names \cup {Absent}, p \in Patients : CreateSession(n, p)
  \/ \E s \in SessionIds, n \in Notes : EndSession(s, n)
  \/ \E s \in SessionIds : DeleteSession(s)
  \/ Tick

UploadNext ==
  \/ \E s \in SessionIds, m \in Mimes : UploadAudio(s, m)
  \/ \E t \in TranscriptionIds, ok \in BOOLEAN, x \in Transcripts : TranscribeAudio(t, ok, x)
  \/ \E t \in TranscriptionIds : UploadThenSave(t)
  \/ \E t \in TranscriptionIds : UploadThenPush(t)
  \/ \E t \in TranscriptionIds : UploadCatch(t)
  \/ \E t \in TranscriptionIds, x \in Texts \cup {""} : UpdateTranscription(t, x)
  \/ \E t \in TranscriptionIds : DeleteTranscription(t)

\* endSession requests followed through their awaits, and updateSession.
EndingNext ==
  \/ \E e \in EndIds, s \in SessionIds, n \in Notes : EndSessionFind(e, s, n)
  \/ \E e \in EndIds : EndSessionSave(e)
  \/ \E s \in SessionIds, u \in SessionUpdates : UpdateSession(s, u)

\* deleteSummary followed through its awaits.
UnlinkNext ==
  \/ \E m \in SummaryIds : DeleteSummaryUnset(m)
  \/ \E m \in SummaryIds : DeleteSummaryRemove(m)

\* Events a client asks the server to pass on.
RelayNext == \E k \in SocketIds, s \in SessionIds : TranscriptionUpdate(k, s)

\* Uploads whose form carries the audio but no sessionId.
MalformedNext ==
  \/ \E m \in Mimes : UploadAudio(NoSessionId, m)
  \/ \E ok \in BOOLEAN, x \in Transcripts : StartStreamTranscription(NoSessionId, TRUE, ok, x)

SummaryNext ==
  \/ \E s \in SessionIds, r \in BOOLEAN : GenerateSummary(s, r)
  \/ \E g \in GenerationIds : LoadTranscripts(g)
  \/ \E g \in GenerationIds, ok \in BOOLEAN, r \in Replies : GenerateStructuredSummary(g, ok, r)
  \/ \E g \in GenerationIds, ok \in BOOLEAN : ExtractKeyPoints(g, ok)
  \/ \E g \in GenerationIds, ok \in BOOLEAN : ExtractMedicalData(g, ok)
  \/ \E g \in GenerationIds : GenerateThen(g)
  \/ \E g \in GenerationIds : GenerateCatch(g)
  \/ \E m \in SummaryIds : DeleteSummary(m)

\* Manual edits and approvals of a summary.
RevisionNext ==
  \/ \E m \in SummaryIds, e \in {Absent} \cup Edits : UpdateSummary(m, e)
  \/ \E m \in SummaryIds, r \in Reviewers : ApproveSummary(m, r)

ExportNext == \E m \in SummaryIds, f \in Formats : ExportSummary(m, f)

\* The TranscriptionBox joins only its own session's room and never sends
\* 'leave-session'; the other client does whatever the protocol allows.
SocketNext ==
  \/ \E k \in SocketIds : Connect(k)
  \/ \E k \in SocketIds, s \in SessionIds :
       (k = BrowserSocket => s = BrowserSession) /\ JoinSession(k, s)
  \/ \E k \in SocketIds \ {BrowserSocket}, s \in SessionIds : LeaveSession(k, s)
  \/ \E k \in SocketIds : Disconnect(k)
  \/ \E s \in SessionIds, f \in BOOLEAN, ok \in BOOLEAN, x \in Transcripts :
       StartStreamTranscription(s, f, ok, x)

BrowserNext ==
  \/ \E t \in TranscriptionIds : BrowserReceive202(t)
  \/ Connect(BrowserSocket)
  \/ JoinSession(BrowserSocket, BrowserSession)
  \/ Disconnect(BrowserSocket)

SpeechNext ==
  \/ \E r \in Responses : Recognize(r)
  \/ ExtractSpeakerSegments

Next ==
  SpeechNext \/ SessionNext \/ EndingNext \/ UploadNext \/ MalformedNext \/ UnlinkNext
    \/ RelayNext \/ SummaryNext \/ RevisionNext \/ ExportNext \/ SocketNext
    \/ BrowserNext

\* The whole server.
Spec == Init /\ [][Next]_vars

\* The three groups of handlers write disjoint parts of the store (a session's
\* own fields, its transcriptions list and the transcriptions, its summary link
\* and the summaries), so each group is checked with the requests of the other
\* groups that it can observe: the session handlers alone; the upload pipeline
\* with sessions ending and disappearing under it; the summary pipeline with
\* sessions and transcriptions disappearing under it.
SessionSpec == Init /\ [][SessionNext]_vars

UploadSpec ==
  Init /\ [][\/ UploadNext
             \/ \E s \in SessionIds : EndSession(s, "")
             \/ \E s \in SessionIds : DeleteSession(s)]_vars

SummarySpec ==
  Init /\ [][\/ SummaryNext
             \/ \E s \in SessionIds : DeleteSession(s)
             \/ \E t \in TranscriptionIds : DeleteTranscription(t)]_vars

\* Generation of summaries next to manual edits and approvals of them.
RevisionSpec == Init /\ [][SummaryNext \/ RevisionNext]_vars

\* Exports of summaries that are edited, approved and deleted meanwhile.
ExportSpec ==
  Init /\ [][\/ ExportNext
             \/ \E m \in SummaryIds : DeleteSummary(m)
             \/ \E m \in SummaryIds, e \in {Absent} \cup Edits : UpdateSummary(m, e)
             \/ \E m \in SummaryIds, r \in Reviewers : ApproveSummary(m, r)]_vars

\* Sessions created, updated and ended.
UpdateSpec ==
  Init /\ [][\/ SessionNext
             \/ \E s \in SessionIds, u \in SessionUpdates : UpdateSession(s, u)]_vars

\* Concurrent endSession requests while the clock runs.
EndingSpec ==
  Init /\ [][\/ \E e \in EndIds, s \in SessionIds, n \in Notes : EndSessionFind(e, s, n)
             \/ \E e \in EndIds : EndSessionSave(e)
             \/ \E s \in SessionIds : DeleteSession(s)
             \/ Tick]_vars

\* Concurrent generateSummary and deleteSummary requests.
LinkSpec == Init /\ [][SummaryNext \/ UnlinkNext]_vars

\* Clients joining, leaving and relaying.
RelaySpec ==
  Init /\ [][\/ \E k \in SocketIds : Connect(k)
             \/ \E k \in SocketIds, s \in SessionIds : JoinSession(k, s)
             \/ \E k \in SocketIds, s \in SessionIds : LeaveSession(k, s)
             \/ \E k \in SocketIds : Disconnect(k)
             \/ RelayNext]_vars

\* Every upload request, well formed or not, and the live chunks.
FileSpec ==
  Init /\ [][\/ UploadNext
             \/ MalformedNext
             \/ \E s \in SessionIds, f \in BOOLEAN, ok \in BOOLEAN, x \in Transcripts :
                  StartStreamTranscription(s, f, ok, x)]_vars

\* The recognition responses the speech API may give.
SpeechSpec == Init /\ [][SpeechNext]_vars

\* Requests for a summary while uploads are accepted, finish, fail and are deleted.
IntakeSpec ==
  Init /\ [][\/ \E s \in SessionIds, r \in BOOLEAN : GenerateSummary(s, r)
             \/ UploadAudio(BrowserSession, "audio/webm")
             \/ \E t \in TranscriptionIds, ok \in BOOLEAN, x \in Transcripts :
                  TranscribeAudio(t, ok, x)
             \/ \E t \in TranscriptionIds : UploadThenSave(t)
             \/ \E t \in TranscriptionIds : UploadThenPush(t)
             \/ \E t \in TranscriptionIds : UploadCatch(t)
             \/ \E t \in TranscriptionIds : DeleteTranscription(t)]_vars

\* The sockets with the three sources of events: an upload, a live chunk and
\* a regeneration that succeed or fail at their first call.
SocketSpec ==
  Init /\ [][\/ SocketNext
             \/ UploadAudio(BrowserSession, "audio/webm")
             \/ \E t \in TranscriptionIds, ok \in BOOLEAN, x \in Transcripts :
                  TranscribeAudio(t, ok, x)
             \/ \E t \in TranscriptionIds : UploadThenSave(t)
             \/ \E t \in TranscriptionIds : UploadThenPush(t)
             \/ \E t \in TranscriptionIds : UploadCatch(t)
             \/ GenerateSummary(BrowserSession, TRUE)
             \/ \E g \in GenerationIds : LoadTranscripts(g)
             \/ \E g \in GenerationIds, ok \in BOOLEAN :
                  GenerateStructuredSummary(g, ok, StoredSummary.content)
             \/ \E g \in GenerationIds : ExtractKeyPoints(g, TRUE)
             \/ \E g \in GenerationIds : ExtractMedicalData(g, TRUE)
             \/ \E g \in GenerationIds : GenerateThen(g)
             \/ \E g \in GenerationIds : GenerateCatch(g)]_vars

\* The browser and the upload pipeline, the browser reconnecting at any time.
BrowserSpec ==
  Init /\ [][\/ BrowserNext
             \/ \E s \in SessionIds, m \in Mimes : UploadAudio(s, m)
             \/ \E t \in TranscriptionIds, ok \in BOOLEAN, x \in Transcripts :
                  TranscribeAudio(t, ok, x)
             \/ \E t \in TranscriptionIds : UploadThenSave(t)
             \/ \E t \in TranscriptionIds : UploadThenPush(t)
             \/ \E t \in TranscriptionIds : UploadCatch(t)]_vars

\* ------------------------------------------------------------------ claims

\* C1: a createSession request whose doctorName is missing or shorter than two
\* characters is answered 400 and creates no Session document.
C1_DoctorNameRequired ==
  [][(res'.op = "createSession" /\ (res'.arg = Absent \/ Len(res'.arg) < 2))
       => (res'.code = 400 /\ sessions' = sessions)]_vars

\* a one-character doctorName has just been refused
C1_Witness ==
  /\ res.op = "createSession"
  /\ res.arg = <<"d">>
  /\ res.code = 400

\* C2: endSession on a session whose status is already 'completed' is answered
\* 400 and leaves the session's status, endTime, duration and notes as they were.
C2_EndCompletedRejected ==
  [][(res'.op = "endSession" /\ sessions[res'.on].status = "completed")
       => /\ res'.code = 400
          /\ sessions'[res'.on].status = sessions[res'.on].status
          /\ sessions'[res'.on].endTime = sessions[res'.on].endTime
          /\ sessions'[res'.on].duration = sessions[res'.on].duration
          /\ sessions'[res'.on].notes = sessions[res'.on].notes]_vars

\* a completed session, ended without notes before the clock moved, has just
\* refused a second end that carried notes
C2_Witness ==
  /\ res.op = "endSession"
  /\ res.arg = <<"seen">>
  /\ res.code = 400
  /\ sessions[res.on].status = "completed"
  /\ sessions[res.on].notes = ""
  /\ sessions[res.on].endTime < now

\* C3: an upload whose MIME type is not one of the allowed audio types is
\* answered with an error; no Transcription document is created for it and no
\* speech call is started for it.
C3_NonAudioRejected ==
  [][(res'.op = "uploadAudio" /\ res'.arg[1] \notin allowedMimes)
       => /\ res'.code = 400
          /\ transcriptions' = transcriptions
          /\ upload' = upload
          /\ files' = files]_vars

\* a text file sent for an existing session has just been refused
C3_Witness ==
  /\ res.op = "uploadAudio"
  /\ res.arg = <<"text/plain">>
  /\ res.code = 400
  /\ sessions[res.on].exists
  /\ Unused(transcriptions, TranscriptionIds) # {}

\* C4: after generateSummary without regenerate on a session that has
\* transcriptions, a second such call for the same session is answered 400 with
\* the summaryId of the summary of the first call, and creates or changes no
\* Summary document.
C4_SecondCallReturnsFirst ==
  \A s \in SessionIds :
    (/\ res.op = "generateSummary"
     /\ res.on = s
     /\ res.arg = <<>>
     /\ res.code \in {202, 400, 500}
     /\ res.status # "No transcriptions found")
      => ENABLED (/\ GenerateSummary(s, FALSE)
                  /\ res'.code = 400
                  /\ res'.id # 0
                  /\ res'.id = sessions[s].summary
                  /\ summaries' = summaries)

\* C5: an upload of an allowed audio type for an existing session is answered
\* 202 with status 'processing' once the Transcription document is stored with
\* status 'processing', while the speech call is still pending.
C5_UploadAccepted ==
  [][(/\ res'.op = "uploadAudio"
      /\ res'.arg[1] \in allowedMimes
      /\ sessions[res'.on].exists)
       => /\ res'.code = 202
          /\ res'.status = "processing"
          /\ ~transcriptions[res'.id].exists
          /\ transcriptions'[res'.id].exists
          /\ transcriptions'[res'.id].status = "processing"
          /\ transcriptions'[res'.id].session = res'.on
          /\ upload'[res'.id].pc = "calling"]_vars

\* an upload has just been answered 202 and its speech call has not settled
C5_Witness ==
  /\ res.op = "uploadAudio"
  /\ res.code = 202
  /\ transcriptions[res.id].status = "processing"
  /\ upload[res.id].pc = "calling"
  /\ res.id \in files

\* C6: generateSummary for an existing session that has at least one
\* transcription in its list and no linked summary creates a Summary document
\* with status 'generating', links it to the session and is answered 202 with
\* status 'generating'.
C6_GenerationAccepted ==
  [][(/\ res'.op = "generateSummary"
      /\ sessions[res'.on].exists
      /\ sessions[res'.on].transcriptions # <<>>
      /\ sessions[res'.on].summary = 0)
       => /\ res'.code = 202
          /\ res'.status = "generating"
          /\ ~summaries[res'.id].exists
          /\ summaries'[res'.id].exists
          /\ summaries'[res'.id].status = "generating"
          /\ summaries'[res'.id].session = res'.on
          /\ sessions'[res'.on].summary = res'.id]_vars

\* C7: once the handlers of an accepted upload have run to their end, whatever
\* updates and deletes came in between, exactly one of
\* 'transcription-completed' and 'transcription-failed' has been emitted to the
\* session's room and the transcription is no longer 'processing'.
C7_ExactlyOneEvent ==
  \A t \in TranscriptionIds :
    upload[t].pc \in {"done", "unhandled"}
      => /\ Len(emitted[t]) = 1
         /\ emitted[t][1].event \in {"transcription-completed", "transcription-failed"}
         /\ emitted[t][1].room = upload[t].session
         /\ transcriptions[t].status # "processing"

\* C8: once the handlers of an accepted generation have run to their end and
\* the Summary document is still stored, its status is 'completed' or 'failed'
\* and exactly one of 'summary-completed' and 'summary-failed' has been emitted
\* to the session's room.
C8_GenerationSettles ==
  \A g \in GenerationIds :
    (/\ generation[g].pc \in {"done", "unhandled"}
     /\ summaries[generation[g].summary].exists)
      => /\ summaries[generation[g].summary].status \in {"completed", "failed"}
         /\ Len(announced[g]) = 1
         /\ announced[g][1].event \in {"summary-completed", "summary-failed"}
         /\ announced[g][1].room = generation[g].session

\* C9: when the speech call of an accepted upload has failed and its handlers
\* have run to their end, 'transcription-failed' has been emitted to the
\* session's room and the transcription is not in the session's list.
C9_FailureReported ==
  \A t \in TranscriptionIds :
    (upload[t].failed /\ upload[t].pc \in {"done", "unhandled"})
      => /\ emitted[t] =
              <<[event |-> "transcription-failed", room |-> upload[t].session]>>
         /\ \A i \in 1..Len(sessions[upload[t].session].transcriptions) :
              sessions[upload[t].session].transcriptions[i] # t

SessionEvents(events) == {e \in events : e.event # "joined-session"}

EmittedInStep ==
  {[event |-> emitted'[t][Len(emitted'[t])].event,
    room |-> emitted'[t][Len(emitted'[t])].room, id |-> t] :
     t \in {u \in TranscriptionIds : Len(emitted'[u]) > Len(emitted[u])}}
  \cup
  {[event |-> announced'[g][Len(announced'[g])].event,
    room |-> announced'[g][Len(announced'[g])].room, id |-> generation[g].summary] :
     g \in {h \in GenerationIds : Len(announced'[h]) > Len(announced[h])}}
  \cup
  (IF Len(live') > Len(live)
   THEN {[event |-> "live-transcription", room |-> live'[Len(live')].room, id |-> 0]}
   ELSE {})

\* C11: a transcription, live-transcription or summary event that the server
\* emits for session S reaches exactly the connected sockets that have joined
\* S's room and not left it since; every other socket gets no session event in
\* that step.
C11_RoomDelivery ==
  [][\A k \in SocketIds :
       SessionEvents(received'[k]) =
         SessionEvents(received[k])
           \cup {e \in EmittedInStep : k \in connected /\ <<k, e.room>> \in rooms}]_vars

\* a completed transcription was announced to the browser's socket while the
\* other client, connected and once a member of the room, had left it
C11_Witness ==
  \E e \in received[BrowserSocket], k \in SocketIds \ {BrowserSocket} :
    /\ e.event = "transcription-completed"
    /\ k \in connected
    /\ [event |-> "joined-session", room |-> e.room, id |-> 0] \in received[k]
    /\ <<k, e.room>> \notin rooms
    /\ e \notin received[k]

\* C12: once the server has emitted the event of an accepted upload, the 202
\* has reached the browser and its socket is connected and in the session's
\* room, the browser's list no longer shows the entry as 'processing'.
C12_ListSettles ==
  \A t \in TranscriptionIds :
    (/\ upload[t].pc = "done"
     /\ Len(emitted[t]) = 1
     /\ t \notin replies
     /\ BrowserSocket \in connected
     /\ <<BrowserSocket, BrowserSession>> \in rooms)
      => list[t] # "processing"

\* C17: a live chunk sent for a session id that identifies no session is
\* answered 404, and no live-transcription event is emitted for it.
C17_StreamUnknownSession ==
  [][(/\ res'.op = "streamTranscription"
      /\ res'.arg = <<"audio">>
      /\ ~sessions[res'.on].exists)
       => /\ res'.code = 404
          /\ live' = live
          /\ received' = received]_vars

\* C13: exportSummary of a stored summary in the format pdf, word or json is
\* answered 200 with the summary.
C13_ExportFormats ==
  [][(/\ res'.op = "exportSummary"
      /\ res'.arg[1] \in {"pdf", "word", "json"}
      /\ summaries[res'.on].exists)
       => (res'.code = 200 /\ res'.id = res'.on)]_vars

\* C14: when a regeneration completes successfully, the Summary document is
\* the same one, the content and version it had before are appended to
\* previousVersions, its version grows by exactly one and its status is
\* 'completed'.
C14_RegenerationVersions ==
  [][\A g \in GenerationIds :
       LET m == generation[g].summary IN
       (/\ generation[g].pc = "resolved"
        /\ generation[g].regenerate
        /\ generation'[g].pc = "done")
         => /\ summaries'[m].exists
            /\ summaries'[m].session = summaries[m].session
            /\ summaries'[m].previousVersions =
                 Append(summaries[m].previousVersions,
                        [version |-> summaries[m].version,
                         content |-> summaries[m].content])
            /\ summaries'[m].version = summaries[m].version + 1
            /\ summaries'[m].status = "completed"]_vars

\* C15: updateTranscription of a stored transcription with a non-empty text
\* other than the stored one appends one editHistory entry (originalText the
\* text before, editedText the new text), stores the new text and sets
\* isEdited; with no text, or the stored text, it leaves the three alone.
C15_EditHistory ==
  [][(res'.op = "updateTranscription" /\ transcriptions[res'.on].exists)
       => LET old == transcriptions[res'.on]
              new == transcriptions'[res'.on]
              text == res'.arg[1] IN
          IF text # "" /\ text # old.transcriptionText
          THEN /\ new.editHistory =
                    Append(old.editHistory,
                           [originalText |-> old.transcriptionText, editedText |-> text])
               /\ new.transcriptionText = text
               /\ new.isEdited
          ELSE /\ new.editHistory = old.editHistory
               /\ new.transcriptionText = old.transcriptionText
               /\ new.isEdited = old.isEdited]_vars

\* an edit of a transcription has been recorded
C15_Witness ==
  /\ res.op = "updateTranscription"
  /\ res.code = 200
  /\ transcriptions[res.on].isEdited
  /\ transcriptions[res.on].editHistory =
       <<[originalText |-> "fever", editedText |-> res.arg[1]]>>
  /\ transcriptions[res.on].transcriptionText = "cough"

\* C16: generateSummary for a stored session whose transcriptions list is empty
\* is answered 400 for want of transcriptions, creates or changes no Summary
\* and starts no generation; uploads still processing or failed do not count.
C16_NoTranscriptions ==
  [][(/\ res'.op = "generateSummary"
      /\ sessions[res'.on].exists
      /\ sessions[res'.on].transcriptions = <<>>)
       => /\ res'.code = 400
          /\ res'.status = "No transcriptions found"
          /\ summaries' = summaries
          /\ generation' = generation]_vars

\* a summary has been refused for a session with an empty list, one upload
\* still processing
C16_Witness ==
  /\ res.op = "generateSummary"
  /\ res.code = 400
  /\ sessions[res.on].exists
  /\ sessions[res.on].transcriptions = <<>>
  /\ \E t \in TranscriptionIds :
       /\ transcriptions[t].session = res.on
       /\ transcriptions[t].status = "processing"

WordsOf(result) == [i \in 1..Len(result.words) |-> result.words[i].word]
TextsOf(segments) == [i \in 1..Len(segments) |-> segments[i].text]

RECURSIVE Flatten(_)
Flatten(seqs) == IF seqs = <<>> THEN <<>> ELSE Head(seqs) \o Flatten(Tail(seqs))

\* C21: for each recognition result with word-level data the segments are the
\* maximal runs of equal speakerTag: no two consecutive segments of the result
\* have the same speaker, each segment's speaker is that of its words, the
\* segments' texts joined by single spaces are the result's words joined by
\* single spaces, and the segments returned are those of the results in order.
C21_SpeakerRuns ==
  speech.pc = "extracted" =>
  /\ speech.segments = Flatten([i \in 1..Len(speech.results) |-> SegmentsOf(speech.results[i])])
  /\ \A i \in 1..Len(speech.results) :
       LET result == speech.results[i]
           segs == SegmentsOf(result) IN
       (result.alternatives /\ result.hasWords) =>
         /\ \A j \in 1..(Len(segs) - 1) : segs[j].speaker # segs[j + 1].speaker
         /\ Join(TextsOf(segs)) = Join(WordsOf(result))
         /\ Len(segs) <= Len(result.words)
         /\ (result.words # <<>>) =>
              /\ segs # <<>>
              /\ segs[1].speaker = result.words[1].speakerTag
              /\ segs[Len(segs)].speaker = result.words[Len(result.words)].speakerTag

\* a result whose speaker changes and changes back has been grouped into three
\* segments, the first of two words
C21_Witness ==
  /\ speech.pc = "extracted"
  /\ Len(speech.results) = 2
  /\ Len(speech.results[1].words) = 3
  /\ Len(speech.segments) = 3
  /\ speech.segments[1].speaker = speech.segments[3].speaker
  /\ speech.segments[1].text = <<"a", " ", "b", "p">>
  /\ speech.results[2].alternatives

\* C22: every audio file on disk belongs to an accepted upload whose
\* transcribeAudio call has not settled yet: a rejected upload request, a
\* settled transcription and a live chunk leave no file behind.
C22_NoOrphanFile ==
  \A f \in files : f \in TranscriptionIds /\ upload[f].pc = "calling"

\* C23: every id in a stored session's transcriptions list is that of a stored
\* Transcription of that session with status 'completed'.
C23_ListRefersToCompleted ==
  \A s \in SessionIds :
    sessions[s].exists =>
      \A i \in 1..Len(sessions[s].transcriptions) :
        LET t == sessions[s].transcriptions[i] IN
        /\ transcriptions[t].exists
        /\ transcriptions[t].session = s
        /\ transcriptions[t].status = "completed"

\* C24: no two stored Summary documents refer to the same session, and the
\* summary field of a stored session, when set, is the id of a stored Summary
\* whose session is that session.
C24_OneSummaryPerSession ==
  /\ \A m, n \in SummaryIds :
       (summaries[m].exists /\ summaries[n].exists
        /\ summaries[m].session = summaries[n].session) => m = n
  /\ \A s \in SessionIds :
       (sessions[s].exists /\ sessions[s].summary # 0) =>
         /\ summaries[sessions[s].summary].exists
         /\ summaries[sessions[s].summary].session = s

\* a generateSummary request has been handled for a session whose summary a
\* deleteSummary request has unlinked and not yet deleted
C24_Witness ==
  /\ res.op = "generateSummary"
  /\ res.code # 0
  /\ \E m \in unlinking :
       /\ summaries[m].exists
       /\ summaries[m].session = res.on
       /\ sessions[res.on].exists
       /\ sessions[res.on].summary = 0

\* C26: a stored session with status 'completed' has an endTime, not before
\* its startTime, and the duration that this interval rounds to in minutes.
C26_CompletedHasEnd ==
  \A s \in SessionIds :
    (sessions[s].exists /\ sessions[s].status = "completed") =>
      /\ sessions[s].endTime # NoTime
      /\ sessions[s].endTime >= sessions[s].startTime
      /\ sessions[s].duration = calculatedDuration(sessions[s].startTime, sessions[s].endTime)

\* C27: an endSession request is answered with success only if the session was
\* not yet completed when the answer was given (so of several concurrent
\* requests one succeeds), and the endTime of a completed session is not
\* written again.
C27_OneEndSucceeds ==
  [][/\ (res'.op = "endSession" /\ res'.code = 200)
          => sessions[res'.on].status # "completed"
     /\ \A s \in SessionIds :
          (sessions[s].status = "completed" /\ sessions'[s].exists)
            => sessions'[s].endTime = sessions[s].endTime]_vars

\* C25: the version of a stored summary is one more than the length of its
\* previousVersions list, and the versions recorded in the list are 1, 2, ...
\* in order.
C25_VersionCountsHistory ==
  \A m \in SummaryIds :
    summaries[m].exists =>
      /\ summaries[m].version = 1 + Len(summaries[m].previousVersions)
      /\ \A i \in 1..Len(summaries[m].previousVersions) :
           summaries[m].previousVersions[i].version = i

\* C28: a stored transcription with edits on record has the text of its last
\* edit, and isEdited is true exactly when there are edits on record.
C28_TextIsLastEdit ==
  \A t \in TranscriptionIds :
    transcriptions[t].exists =>
      LET h == transcriptions[t].editHistory IN
      /\ (h # <<>>) => transcriptions[t].transcriptionText = h[Len(h)].editedText
      /\ transcriptions[t].isEdited <=> (h # <<>>)

\* C29: the status of a stored transcription changes only from 'processing',
\* and then to 'completed' or to 'failed'.
C29_StatusFinal ==
  [][\A t \in TranscriptionIds :
       (transcriptions[t].exists /\ transcriptions'[t].exists
        /\ transcriptions'[t].status # transcriptions[t].status)
         => /\ transcriptions[t].status = "processing"
            /\ transcriptions'[t].status \in {"completed", "failed"}]_vars

\* C30: an event that a client has the server pass on reaches the sockets of a
\* room only if the client is in that room.
C30_RelayFromMembers ==
  [][\A j \in SocketIds :
       \A e \in received'[j] \ received[j] :
         e.event = "transcription-update" => <<e.id, e.room>> \in rooms]_vars

====
